---- MODULE Spec2Model ----
(***************************************************************************)
(* Provider of cf-wallet.js (packages/cf-wallet.js/src/provider.ts): the   *)
(* request/response correlation over the node transport, the inbound       *)
(* message router, the app-instance cache and the event enrichment.        *)
(*                                                                         *)
(* A step of the model is the synchronous part of one call into the        *)
(* provider (a call of the public API, or onNodeMessage for one inbound    *)
(* message), one timer callback, or the microtask checkpoint that ends the *)
(* running task.  The promise reactions a call schedules stay in the       *)
(* microtask queue until the task ends, so the transport or the            *)
(* application may call the provider again before they run.  A             *)
(* continuation that awaits the promise of callRawNodeMethod stays         *)
(* suspended in the call's record until the promise is settled.            *)
(*                                                                         *)
(* Each operation is a function from the state it starts in to the working *)
(* state it ends in, which also holds what was emitted on the event        *)
(* emitter, sent on the transport and returned.  The properties quantify   *)
(* over the reachable states and the inputs and speak of the result of an  *)
(* operation that is run as a task of its own.                             *)
(*                                                                         *)
(* The instruction schedules of src/instructions.ts and the joint run of   *)
(* two peers over them are a second specification, ProtoSpec, in which the *)
(* provider stays idle.                                                    *)
(***************************************************************************)
EXTENDS Integers, Sequences, FiniteSets, TLC

VARIABLES
    now,               \* wall clock in ms, read by new Date().valueOf()
    calls,             \* one record per callRawNodeMethod invocation
    requestListeners,  \* this.requestListeners: request id -> listener (call)
    appInstances,      \* this.appInstances: app instance id -> AppInstance
    micro,             \* promise reactions queued in the running task
    exited,            \* the host ended the process on an unhandled rejection
    run                \* one protocol run of the two peers over the schedules

providerVars == <<now, calls, requestListeners, appInstances, micro, exited>>

vars == <<now, calls, requestListeners, appInstances, micro, exited, run>>

-----------------------------------------------------------------------------
(* Bounds and constants *)

NODE_REQUEST_TIMEOUT == 30000

\* Bound on the number of callRawNodeMethod invocations in one behaviour.
MaxCalls == 2

\* Bound on the number of promise reactions queued when a step ends.
MaxMicro == 1

\* Enumerations imported from @counterfactual/types and ./types.
RpcMethodName ==
    [INSTALL |-> "chan_install",
     INSTALL_VIRTUAL |-> "chan_installVirtual",
     GET_APP_INSTANCE_DETAILS |-> "chan_getAppInstance",
     DEPOSIT |-> "chan_deposit"]

EventName ==
    [INSTALL |-> "installEvent",
     INSTALL_VIRTUAL |-> "installVirtualEvent",
     REJECT_INSTALL |-> "rejectInstallEvent",
     UPDATE_STATE |-> "updateStateEvent"]

EventType ==
    [INSTALL |-> "install",
     INSTALL_VIRTUAL |-> "installVirtual",
     REJECT_INSTALL |-> "rejectInstall",
     ERROR |-> "error"]

ErrorType == [ERROR |-> "error"]

Values(enum) == {enum[k] : k \in DOMAIN enum}

\* A method name that is falsy in JavaScript (the request cannot be built).
NoMethod == ""

AppIds == {"0xA"}
Details == {"d1", "d2"}

\* AppInstanceInfo | AppInstanceJson: the identity and the other details.
Infos == [identityHash : AppIds, details : Details]
NoInfo == [identityHash |-> "", details |-> ""]

\* An AppInstance object: the info it was built from, and its identity as an
\* object, which is its rank among the objects ever stored under its key.
NoRecord == [obj |-> 0, info |-> NoInfo]

\* The data of a payload; an absent field holds its empty value.
NoData ==
    [appInstanceId |-> "",
     params |-> [appInstanceId |-> ""],
     appInstance |-> NoInfo,
     errorName |-> "",
     message |-> 0]      \* the id of the request or response the message quotes

\* `undefined` where a payload {type, data} is read.
Undefined == [type |-> "undefined", data |-> NoData]

NoRequest == [methodName |-> "", parameters |-> "", id |-> 0]

NoMessage ==
    [jsonrpc |-> FALSE, id |-> 0, result |-> Undefined,
     type |-> "undefined", data |-> NoData]

-----------------------------------------------------------------------------
(* Inbound messages *)

\* JsonRpcResponse: {jsonrpc: "2.0", result: {type, ...}, id}
JsonRpcResponse(id, result) ==
    [jsonrpc |-> TRUE, id |-> id, result |-> result,
     type |-> "undefined", data |-> NoData]

\* JsonRpcNotification: {jsonrpc: "2.0", result: {type, ...}} (no id)
JsonRpcNotification(result) ==
    [jsonrpc |-> TRUE, id |-> 0, result |-> result,
     type |-> "undefined", data |-> NoData]

\* Node.Event: {type, data} (no jsonrpc, no result, no id)
NodeEvent(payload) ==
    [jsonrpc |-> FALSE, id |-> 0, result |-> Undefined,
     type |-> payload.type, data |-> payload.data]

ErrorPayload(errorName) ==
    [type |-> ErrorType.ERROR, data |-> [NoData EXCEPT !.errorName = errorName]]

\* Results of the methods: the app-instance methods carry an appInstance,
\* which the result of install and installVirtual may lack.
ResponsePayloads ==
    {[type |-> t, data |-> [NoData EXCEPT !.appInstance = i]] :
        t \in {RpcMethodName.INSTALL, RpcMethodName.INSTALL_VIRTUAL,
               RpcMethodName.GET_APP_INSTANCE_DETAILS},
        i \in Infos}
    \cup {[type |-> t, data |-> NoData] :
            t \in {RpcMethodName.INSTALL, RpcMethodName.INSTALL_VIRTUAL,
                   RpcMethodName.DEPOSIT}}

\* Events of the node: INSTALL carries data.appInstanceId, INSTALL_VIRTUAL
\* carries data.params.appInstanceId, REJECT_INSTALL carries data.appInstance.
EventPayloads ==
    {[type |-> EventName.INSTALL, data |-> [NoData EXCEPT !.appInstanceId = a]] :
        a \in AppIds}
    \cup {[type |-> EventName.INSTALL_VIRTUAL,
           data |-> [NoData EXCEPT !.params = [appInstanceId |-> a]]] : a \in AppIds}
    \cup {[type |-> EventName.REJECT_INSTALL,
           data |-> [NoData EXCEPT !.appInstance = i]] : i \in Infos}
    \cup {[type |-> EventName.UPDATE_STATE, data |-> NoData]}

NodeErrorPayload == ErrorPayload("node_error")

\* The messages the node may deliver, given the request ids issued so far.
InboundMessages(ids) ==
    {JsonRpcResponse(i, p) : i \in ids, p \in ResponsePayloads \cup {NodeErrorPayload}}
    \cup {JsonRpcNotification(p) : p \in EventPayloads \cup {NodeErrorPayload}}
    \cup {NodeEvent(p) : p \in EventPayloads \cup {NodeErrorPayload}}

-----------------------------------------------------------------------------
(* The working state of one task: the provider's state, the events passed  *)
(* to eventEmitter.emit, the requests passed to nodeProvider.sendMessage,   *)
(* the promise reactions still to run, the value returned to the caller and *)
(* whether the task raised.                                                 *)

Start ==
    [now |-> now, calls |-> calls, requestListeners |-> requestListeners,
     appInstances |-> appInstances,
     emitted |-> <<>>, sent |-> <<>>, micro |-> micro,
     ret |-> NoRecord, raised |-> FALSE, unhandled |-> FALSE]

\* this.eventEmitter.emit(topic, payload)
emit(s, topic, payload, appInstance) ==
    [s EXCEPT !.emitted =
        Append(@, [topic |-> topic, payload |-> payload, appInstance |-> appInstance])]

\* The functions of the provider that handle an event of the node; the
\* promise they return is dropped by onNodeMessage.
EventHandlers ==
    {"handleInstallEvent", "handleInstallVirtualEvent", "handleRejectInstallEvent"}

\* A reaction in the microtask queue: the function awaiting the settled
\* promise of call `call` resumes, or (status "emit") an event handler
\* resumes after its await of getOrCreateAppInstance.
Reaction(c, status, value, caller, appInstance) ==
    [call |-> c, status |-> status, value |-> value,
     caller |-> caller, appInstance |-> appInstance]

\* The provider has code waiting on the promise of a call that settles with
\* the given status: a resolved promise resumes install, installVirtual or
\* getOrCreateAppInstance; a rejected one goes through them to their caller,
\* which is the application, or an event handler whose promise nobody holds.
\* The promise of a direct callRawNodeMethod is the application's.
Awaited(call, status) ==
    IF status = "resolved"
    THEN call.cont # "callRawNodeMethod"
    ELSE call.cont \in EventHandlers

\* resolve / reject of the promise of call c.  Only the first one settles the
\* promise and schedules its reactions; every invocation is counted.
settle(s, c, status, errorName, echo, value) ==
    IF s.calls[c].status = "pending"
    THEN [s EXCEPT !.calls[c].status = status,
                   !.calls[c].settles = @ + 1,
                   !.calls[c].errorName = errorName,
                   !.calls[c].echo = echo,
                   !.micro = IF Awaited(s.calls[c], status)
                             THEN Append(@, Reaction(c, status, value, "", NoRecord))
                             ELSE @]
    ELSE [s EXCEPT !.calls[c].settles = @ + 1]

resolve(s, c, value) == settle(s, c, "resolved", "", NoRequest, value)

reject(s, c, errorName, echo) == settle(s, c, "rejected", errorName, echo, Undefined)

\* jsonRpcDeserialize({params, jsonrpc, method, id})
jsonRpcDeserialize(methodName, params, requestId) ==
    [methodName |-> methodName, parameters |-> params, id |-> requestId]

\* this.requestListeners[requestId] = listener of call c
registerListener(table, requestId, c) ==
    [i \in (DOMAIN table) \cup {requestId} |-> IF i = requestId THEN c ELSE table[i]]

\* A delete that empties the table.
deleteListenerAll(table, requestId) ==
    [i \in {} |-> table[i]]

\* delete this.requestListeners[requestId]
deleteListener(table, requestId) ==
    [i \in (DOMAIN table) \ {requestId} |-> table[i]]

\* A listener without the comparison of the result type with the method name.
requestListenerNoTypeCheck(s, c, response) ==
    IF response.result.type = ErrorType.ERROR
    THEN reject(s, c, response.result.data.errorName, NoRequest)
    ELSE resolve(s, c, response.result)

\* The closure stored at this.requestListeners[requestId] by call c.
requestListener(s, c, response) ==
    IF response.result.type = ErrorType.ERROR
    THEN reject(s, c, response.result.data.errorName, NoRequest)
    ELSE IF response.result.type # s.calls[c].methodName
         THEN reject(s, c, "unexpected_message_type", NoRequest)
         ELSE resolve(s, c, response.result)

handleNodeErrorKeepsListener(s, error) ==
    LET requestId == error.id
        s1 == IF requestId # 0 /\ requestId \in DOMAIN s.requestListeners
              THEN requestListener(s, s.requestListeners[requestId], error)
              ELSE s
    IN  IF error.result = Undefined
        THEN [s1 EXCEPT !.raised = TRUE]
        ELSE emit(s1, error.result.type, error.result, NoRecord)

handleNodeError(s, error) ==
    LET requestId == error.id
        s1 == IF requestId # 0 /\ requestId \in DOMAIN s.requestListeners
              THEN LET s0 == requestListener(s, s.requestListeners[requestId], error)
                   IN [s0 EXCEPT !.requestListeners = deleteListener(@, requestId)]
              ELSE s
    IN  IF error.result = Undefined
        THEN [s1 EXCEPT !.raised = TRUE]   \* TypeError: error.result is undefined
        ELSE emit(s1, error.result.type, error.result, NoRecord)

NewCall(requestId, methodName, params, cont, timer) ==
    [id |-> requestId, methodName |-> methodName, appInstanceId |-> params,
     cont |-> cont, status |-> "pending", settles |-> 0, errorName |-> "",
     echo |-> NoRequest, timer |-> timer]

\* callRawNodeMethod, up to the return of the promise.  cont names the
\* function that awaits the promise.
callRawNodeMethod(s, methodName, params, cont) ==
    LET requestId == s.now
        request == jsonRpcDeserialize(methodName, params, requestId)
        c == Len(s.calls) + 1
    IN  IF request.methodName = NoMethod
        THEN handleNodeError(
                 [s EXCEPT !.calls = Append(@, NewCall(requestId, methodName, params, cont, "none"))],
                 JsonRpcResponse(requestId, ErrorPayload("unexpected_event_type")))
        ELSE [s EXCEPT
                 !.calls = Append(@, NewCall(requestId, methodName, params, cont, "armed")),
                 !.requestListeners = registerListener(@, requestId, c),
                 !.sent = Append(@, request)]

\* A timeout callback that rejects and leaves the entry in the table.
timeoutCallbackKeepsListener(s, c) ==
    LET requestId == s.calls[c].id
        request == jsonRpcDeserialize(s.calls[c].methodName, s.calls[c].appInstanceId, requestId)
        s0 == [s EXCEPT !.calls[c].timer = "fired"]
    IN  IF requestId \in DOMAIN s0.requestListeners
        THEN reject(s0, c, "request_timeout", request)
        ELSE s0

\* The setTimeout callback of call c.
timeoutCallback(s, c) ==
    LET requestId == s.calls[c].id
        request == jsonRpcDeserialize(s.calls[c].methodName, s.calls[c].appInstanceId, requestId)
        s0 == [s EXCEPT !.calls[c].timer = "fired"]
    IN  IF requestId \in DOMAIN s0.requestListeners
        THEN LET s1 == reject(s0, c, "request_timeout", request)
             IN [s1 EXCEPT !.requestListeners = deleteListener(@, requestId)]
        ELSE s0

\* this.appInstances[id] = new AppInstance(newInfo, this)
createAppInstance(s, id, newInfo) ==
    LET rank == IF id \in DOMAIN s.appInstances THEN s.appInstances[id].obj + 1 ELSE 1
    IN  [s EXCEPT
            !.appInstances =
                [i \in (DOMAIN @) \cup {id} |->
                    IF i = id THEN [obj |-> rank, info |-> newInfo] ELSE @[i]]]

\* An event handler, resumed after its await, publishes the typed event.
publish(s, caller, appInstance) ==
    CASE caller = "handleInstallEvent" ->
            emit(s, EventType.INSTALL,
                 [type |-> EventType.INSTALL, data |-> NoData], appInstance)
      [] caller = "handleInstallVirtualEvent" ->
            emit(s, EventType.INSTALL_VIRTUAL,
                 [type |-> EventType.INSTALL_VIRTUAL, data |-> NoData], appInstance)
      [] OTHER ->
            emit(s, EventType.REJECT_INSTALL,
                 [type |-> EventType.REJECT_INSTALL, data |-> NoData], appInstance)

\* getOrCreateAppInstance returns the record: an event handler awaits the
\* returned promise and resumes in a later microtask; install, installVirtual
\* and the application receive it as the value of their promise.
resumeCaller(s, caller, appInstance) ==
    IF caller \in EventHandlers
    THEN [s EXCEPT !.micro = Append(@, Reaction(0, "emit", Undefined, caller, appInstance))]
    ELSE [s EXCEPT !.ret = appInstance]

\* A getOrCreateAppInstance that builds from the info whenever one is given.
getOrCreateAppInstanceHintFirst(s, id, info, caller) ==
    IF info # NoInfo
    THEN LET s1 == createAppInstance(s, id, info)
         IN resumeCaller(s1, caller, s1.appInstances[id])
    ELSE IF id \notin DOMAIN s.appInstances
         THEN callRawNodeMethod(s, RpcMethodName.GET_APP_INSTANCE_DETAILS, id, caller)
         ELSE resumeCaller(s, caller, s.appInstances[id])

\* getOrCreateAppInstance, up to its return or to its await of the fetch.
getOrCreateAppInstance(s, id, info, caller) ==
    IF id \notin DOMAIN s.appInstances
    THEN IF info # NoInfo
         THEN LET s1 == createAppInstance(s, id, info)
              IN resumeCaller(s1, caller, s1.appInstances[id])
         ELSE callRawNodeMethod(s, RpcMethodName.GET_APP_INSTANCE_DETAILS, id, caller)
    ELSE resumeCaller(s, caller, s.appInstances[id])

\* getOrCreateAppInstance after its await: the fetch resolved with `result`.
getOrCreateAppInstanceResumed(s, id, result, caller) ==
    LET s1 == createAppInstance(s, id, result.data.appInstance)
    IN resumeCaller(s1, caller, s1.appInstances[id])

\* The reaction to the settled promise of call m.call.
runContinuation(s, m) ==
    IF m.status = "emit"
    THEN publish(s, m.caller, m.appInstance)
    ELSE LET call == s.calls[m.call]
         IN  IF m.status = "rejected"
             THEN \* the await throws in an event handler: unhandled rejection
                  [s EXCEPT !.unhandled = TRUE]
             ELSE IF call.methodName \in {RpcMethodName.INSTALL, RpcMethodName.INSTALL_VIRTUAL}
                  THEN \* install / installVirtual after their await
                       getOrCreateAppInstance(s, call.appInstanceId,
                                              m.value.data.appInstance, call.cont)
                  ELSE \* getOrCreateAppInstance after its await of the fetch
                       getOrCreateAppInstanceResumed(s, call.appInstanceId, m.value, call.cont)

\* The microtask checkpoint at the end of the task.
RECURSIVE drain(_)
drain(s) ==
    IF s.micro = <<>>
    THEN s
    ELSE drain(runContinuation([s EXCEPT !.micro = Tail(@)], Head(s.micro)))

handleNodeMethodResponse(s, response) ==
    LET id == response.id
    IN  IF id \in DOMAIN s.requestListeners
        THEN LET s0 == requestListener(s, s.requestListeners[id], response)
             IN [s0 EXCEPT !.requestListeners = deleteListener(@, id)]
        ELSE LET error == JsonRpcResponse(id,
                              [type |-> EventType.ERROR,
                               data |-> [NoData EXCEPT !.errorName = "orphaned_response",
                                                       !.message = response.id]])
             IN emit(s, error.result.type, error.result, NoRecord)

handleGenericEvent(s, nodeEvent) == emit(s, nodeEvent.type, nodeEvent, NoRecord)

\* A handler that republishes the INSTALL event as it came.
handleInstallEventRaw(s, nodeEvent) == handleGenericEvent(s, nodeEvent)

handleInstallEvent(s, nodeEvent) ==
    getOrCreateAppInstance(s, nodeEvent.data.appInstanceId, NoInfo, "handleInstallEvent")

\* A handler that reads the id where the INSTALL event carries it.
handleInstallVirtualEventFlat(s, nodeEvent) ==
    getOrCreateAppInstance(s, nodeEvent.data.appInstanceId, NoInfo,
                           "handleInstallVirtualEvent")

handleInstallVirtualEvent(s, nodeEvent) ==
    getOrCreateAppInstance(s, nodeEvent.data.params.appInstanceId, NoInfo,
                           "handleInstallVirtualEvent")

\* A handler that does not pass the details of the payload on.
handleRejectInstallEventNoHint(s, nodeEvent) ==
    LET info == nodeEvent.data.appInstance
    IN getOrCreateAppInstance(s, info.identityHash, NoInfo, "handleRejectInstallEvent")

handleRejectInstallEvent(s, nodeEvent) ==
    LET info == nodeEvent.data.appInstance
    IN getOrCreateAppInstance(s, info.identityHash, info, "handleRejectInstallEvent")

handleNodeEvent(s, event) ==
    LET nodeEvent == IF event.jsonrpc THEN event.result
                     ELSE [type |-> event.type, data |-> event.data]
    IN  CASE nodeEvent.type = EventName.REJECT_INSTALL -> handleRejectInstallEvent(s, nodeEvent)
          [] nodeEvent.type = EventName.INSTALL -> handleInstallEvent(s, nodeEvent)
          [] nodeEvent.type = EventName.INSTALL_VIRTUAL -> handleInstallVirtualEvent(s, nodeEvent)
          [] OTHER -> handleGenericEvent(s, nodeEvent)

\* A router that handles one enrichment at a time: while a details-fetch of
\* an event handler is pending, only the answer to it is handled.
onNodeMessageSerial(s, message) ==
    LET type == IF message.jsonrpc THEN message.result.type ELSE message.type
        waiting == {c \in DOMAIN s.calls :
                       /\ s.calls[c].status = "pending"
                       /\ s.calls[c].cont \in {"handleInstallEvent", "handleInstallVirtualEvent"}}
    IN  IF waiting # {} /\ \A c \in waiting : s.calls[c].id # message.id
        THEN s
        ELSE IF type \in Values(ErrorType)
             THEN handleNodeError(s, message)
             ELSE IF message.id # 0
                  THEN handleNodeMethodResponse(s, message)
                  ELSE handleNodeEvent(s, message)

onNodeMessage(s, message) ==
    LET type == IF message.jsonrpc THEN message.result.type ELSE message.type
    IN  IF type \in Values(ErrorType)
        THEN handleNodeError(s, message)
        ELSE IF message.id # 0
             THEN handleNodeMethodResponse(s, message)
             ELSE handleNodeEvent(s, message)

-----------------------------------------------------------------------------
(* Instruction schedules (src/instructions.ts) and the joint run of the two *)
(* peers over them: each peer walks its schedule one instruction at a time, *)
(* IO_SEND hands the prepared message to the channel, the channel delivers  *)
(* in order, IO_WAIT takes the next delivered message, and the receiving    *)
(* peer starts its schedule on the first message delivered to it.           *)

Instruction ==
    [STATE_TRANSITION_PROPOSE |-> 0,
     STATE_TRANSITION_COMMIT |-> 1,
     OP_GENERATE |-> 2,
     OP_SIGN |-> 3,
     OP_SIGN_VALIDATE |-> 4,
     IO_PREPARE_SEND |-> 5,
     IO_SEND |-> 6,
     IO_WAIT |-> 7,
     KEY_GENERATE |-> 8,
     ALL |-> 9]

\* The initiator's usual schedule: sign, send, wait, validate.
SignSendWaitValidate ==
    <<Instruction.STATE_TRANSITION_PROPOSE, Instruction.OP_GENERATE,
      Instruction.OP_SIGN, Instruction.IO_PREPARE_SEND, Instruction.IO_SEND,
      Instruction.IO_WAIT, Instruction.OP_SIGN_VALIDATE,
      Instruction.STATE_TRANSITION_COMMIT>>

\* The receiver's usual schedule: validate, sign, send.
ValidateSignSend ==
    <<Instruction.STATE_TRANSITION_PROPOSE, Instruction.OP_GENERATE,
      Instruction.OP_SIGN_VALIDATE, Instruction.OP_SIGN,
      Instruction.IO_PREPARE_SEND, Instruction.IO_SEND,
      Instruction.STATE_TRANSITION_COMMIT>>

\* Schedules in which update generates keys before it proposes.
InstructionsUpdateWithKeys ==
    [update |-> <<Instruction.KEY_GENERATE>> \o SignSendWaitValidate,
     setup |-> SignSendWaitValidate,
     install |-> <<Instruction.KEY_GENERATE, Instruction.IO_PREPARE_SEND,
                   Instruction.IO_SEND, Instruction.IO_WAIT,
                   Instruction.STATE_TRANSITION_PROPOSE, Instruction.OP_GENERATE,
                   Instruction.OP_SIGN_VALIDATE, Instruction.OP_SIGN,
                   Instruction.IO_PREPARE_SEND, Instruction.IO_SEND,
                   Instruction.STATE_TRANSITION_COMMIT>>,
     uninstall |-> SignSendWaitValidate]

\* Schedules in which the initiator of setup validates before it waits.
InstructionsValidateBeforeWait ==
    [update |-> SignSendWaitValidate,
     setup |-> <<Instruction.STATE_TRANSITION_PROPOSE, Instruction.OP_GENERATE,
                 Instruction.OP_SIGN, Instruction.IO_PREPARE_SEND,
                 Instruction.IO_SEND, Instruction.OP_SIGN_VALIDATE,
                 Instruction.IO_WAIT, Instruction.STATE_TRANSITION_COMMIT>>,
     install |-> <<Instruction.KEY_GENERATE, Instruction.IO_PREPARE_SEND,
                   Instruction.IO_SEND, Instruction.IO_WAIT,
                   Instruction.STATE_TRANSITION_PROPOSE, Instruction.OP_GENERATE,
                   Instruction.OP_SIGN_VALIDATE, Instruction.OP_SIGN,
                   Instruction.IO_PREPARE_SEND, Instruction.IO_SEND,
                   Instruction.STATE_TRANSITION_COMMIT>>,
     uninstall |-> SignSendWaitValidate]

Instructions ==
    [update |-> <<Instruction.STATE_TRANSITION_PROPOSE, Instruction.OP_GENERATE,
                  Instruction.OP_SIGN, Instruction.IO_PREPARE_SEND,
                  Instruction.IO_SEND, Instruction.IO_WAIT,
                  Instruction.OP_SIGN_VALIDATE,
                  Instruction.STATE_TRANSITION_COMMIT>>,
     setup |-> <<Instruction.STATE_TRANSITION_PROPOSE, Instruction.OP_GENERATE,
                 Instruction.OP_SIGN, Instruction.IO_PREPARE_SEND,
                 Instruction.IO_SEND, Instruction.IO_WAIT,
                 Instruction.OP_SIGN_VALIDATE,
                 Instruction.STATE_TRANSITION_COMMIT>>,
     install |-> <<Instruction.KEY_GENERATE, Instruction.IO_PREPARE_SEND,
                   Instruction.IO_SEND, Instruction.IO_WAIT,
                   Instruction.STATE_TRANSITION_PROPOSE, Instruction.OP_GENERATE,
                   Instruction.OP_SIGN_VALIDATE, Instruction.OP_SIGN,
                   Instruction.IO_PREPARE_SEND, Instruction.IO_SEND,
                   Instruction.STATE_TRANSITION_COMMIT>>,
     uninstall |-> <<Instruction.STATE_TRANSITION_PROPOSE, Instruction.OP_GENERATE,
                     Instruction.OP_SIGN, Instruction.IO_PREPARE_SEND,
                     Instruction.IO_SEND, Instruction.IO_WAIT,
                     Instruction.OP_SIGN_VALIDATE,
                     Instruction.STATE_TRANSITION_COMMIT>>]

\* Receiver schedules in which uninstall waits for a message before it sends.
AckInstructionsWaitBeforeSend ==
    [update |-> ValidateSignSend,
     setup |-> ValidateSignSend,
     install |-> <<Instruction.KEY_GENERATE, Instruction.STATE_TRANSITION_PROPOSE,
                   Instruction.OP_GENERATE, Instruction.OP_SIGN,
                   Instruction.IO_PREPARE_SEND, Instruction.IO_SEND,
                   Instruction.IO_WAIT, Instruction.OP_SIGN_VALIDATE,
                   Instruction.STATE_TRANSITION_COMMIT>>,
     uninstall |-> <<Instruction.STATE_TRANSITION_PROPOSE, Instruction.OP_GENERATE,
                     Instruction.IO_WAIT, Instruction.OP_SIGN_VALIDATE,
                     Instruction.OP_SIGN, Instruction.IO_PREPARE_SEND,
                     Instruction.IO_SEND, Instruction.STATE_TRANSITION_COMMIT>>]

\* Receiver schedules in which install does not wait for the second message.
AckInstructionsInstallNoWait ==
    [update |-> ValidateSignSend,
     setup |-> ValidateSignSend,
     install |-> <<Instruction.KEY_GENERATE, Instruction.STATE_TRANSITION_PROPOSE,
                   Instruction.OP_GENERATE, Instruction.OP_SIGN,
                   Instruction.IO_PREPARE_SEND, Instruction.IO_SEND,
                   Instruction.OP_SIGN_VALIDATE,
                   Instruction.STATE_TRANSITION_COMMIT>>,
     uninstall |-> ValidateSignSend]

AckInstructions ==
    [update |-> <<Instruction.STATE_TRANSITION_PROPOSE, Instruction.OP_GENERATE,
                  Instruction.OP_SIGN_VALIDATE, Instruction.OP_SIGN,
                  Instruction.IO_PREPARE_SEND, Instruction.IO_SEND,
                  Instruction.STATE_TRANSITION_COMMIT>>,
     setup |-> <<Instruction.STATE_TRANSITION_PROPOSE, Instruction.OP_GENERATE,
                 Instruction.OP_SIGN_VALIDATE, Instruction.OP_SIGN,
                 Instruction.IO_PREPARE_SEND, Instruction.IO_SEND,
                 Instruction.STATE_TRANSITION_COMMIT>>,
     install |-> <<Instruction.KEY_GENERATE, Instruction.STATE_TRANSITION_PROPOSE,
                   Instruction.OP_GENERATE, Instruction.OP_SIGN,
                   Instruction.IO_PREPARE_SEND, Instruction.IO_SEND,
                   Instruction.IO_WAIT, Instruction.OP_SIGN_VALIDATE,
                   Instruction.STATE_TRANSITION_COMMIT>>,
     uninstall |-> <<Instruction.STATE_TRANSITION_PROPOSE, Instruction.OP_GENERATE,
                     Instruction.OP_SIGN_VALIDATE, Instruction.OP_SIGN,
                     Instruction.IO_PREPARE_SEND, Instruction.IO_SEND,
                     Instruction.STATE_TRANSITION_COMMIT>>]

Kinds == DOMAIN Instructions

Roles == {"initiator", "acknowledger"}

\* The two peers of the channel; either of them may start a protocol.
Peers == {"A", "B"}

Peer(r) == IF r = "initiator" THEN "acknowledger" ELSE "initiator"

\* The schedule role r walks in a protocol of the given kind.
Schedule(r, kind) ==
    IF r = "initiator" THEN Instructions[kind] ELSE AckInstructions[kind]

\* A ClientMessage, as far as the schedules are concerned: who prepared it,
\* and whether the sender had executed OP_SIGN when it prepared it.
NoMsg == [from |-> "none", signed |-> FALSE]

\* No protocol is running.
NoRun ==
    [kind |-> "none",
     initiator |-> "none",                 \* the peer that started the protocol
     started |-> [r \in Roles |-> FALSE],
     done |-> [r \in Roles |-> <<>>],      \* the instructions r has executed
     out |-> [r \in Roles |-> NoMsg],      \* the message r has prepared
     wire |-> [r \in Roles |-> <<>>],      \* sent to r, not yet delivered
     inbox |-> [r \in Roles |-> <<>>],     \* delivered to r, not yet taken
     trigger |-> NoMsg]                    \* the message that started the receiver

\* The peer that plays role r in the run.
PeerOf(rn, r) ==
    IF r = "initiator" THEN rn.initiator
    ELSE CHOOSE p \in Peers : p # rn.initiator

\* A peer starts a protocol of the given kind out of nowhere.
startProtocol(kind, p) ==
    [NoRun EXCEPT !.kind = kind, !.initiator = p, !.started["initiator"] = TRUE]

\* The instructions of a log, in order.
OpsOf(log) == [k \in DOMAIN log |-> log[k].op]

Executed(rn, r, op) == \E k \in DOMAIN rn.done[r] : rn.done[r][k].op = op

\* Role r has walked its schedule to the end.
Finished(rn, r) ==
    rn.started[r] /\ Len(rn.done[r]) = Len(Schedule(r, rn.kind))

\* The next instruction of role r.
NextOp(rn, r) == Schedule(r, rn.kind)[Len(rn.done[r]) + 1]

\* Role r can execute its next instruction: IO_WAIT blocks until a message
\* has been delivered.
CanExecute(rn, r) ==
    /\ rn.kind \in Kinds
    /\ rn.started[r]
    /\ ~Finished(rn, r)
    /\ NextOp(rn, r) = Instruction.IO_WAIT => rn.inbox[r] # <<>>

\* Role r executes its next instruction.
execute(rn, r) ==
    LET op == NextOp(rn, r)
    IN  CASE op = Instruction.IO_WAIT ->
                [rn EXCEPT !.done[r] = Append(@, [op |-> op, msg |-> Head(rn.inbox[r])]),
                           !.inbox[r] = Tail(@)]
          [] op = Instruction.IO_PREPARE_SEND ->
                [rn EXCEPT !.done[r] = Append(@, [op |-> op, msg |-> NoMsg]),
                           !.out[r] = [from |-> PeerOf(rn, r),
                                       signed |-> Executed(rn, r, Instruction.OP_SIGN)]]
          [] op = Instruction.IO_SEND ->
                [rn EXCEPT !.done[r] = Append(@, [op |-> op, msg |-> rn.out[r]]),
                           !.wire[Peer(r)] = Append(@, rn.out[r]),
                           !.out[r] = NoMsg]
          [] OTHER ->
                [rn EXCEPT !.done[r] = Append(@, [op |-> op, msg |-> NoMsg])]

\* The channel delivers the oldest message on its way to role r.
deliver(rn, r) ==
    [rn EXCEPT !.inbox[r] = Append(@, Head(rn.wire[r])), !.wire[r] = Tail(@)]

\* The receiver starts its schedule on the first message delivered to it.
startAcknowledger(rn) ==
    [rn EXCEPT !.started["acknowledger"] = TRUE,
               !.trigger = Head(rn.inbox["acknowledger"]),
               !.inbox["acknowledger"] = Tail(@)]

-----------------------------------------------------------------------------
(* Steps *)

\* The step ends in working state s.  An exception that leaves onNodeMessage
\* reaches the transport that called it, which catches it or lets the host
\* end the process; a task that ends with an unhandled rejection is reported
\* to the host, which ends the process or goes on (Node:
\* --unhandled-rejections=throw or warn; a browser goes on).
Commit(s) ==
    /\ ~exited
    /\ Len(s.calls) <= MaxCalls
    /\ Len(s.micro) <= MaxMicro
    /\ now' = s.now
    /\ calls' = s.calls
    /\ requestListeners' = s.requestListeners
    /\ appInstances' = s.appInstances
    /\ micro' = s.micro
    /\ exited' \in (IF s.raised \/ s.unhandled THEN BOOLEAN ELSE {FALSE})
    /\ run' = run

Init ==
    /\ now = 1
    /\ calls = <<>>
    /\ requestListeners = <<>>
    /\ appInstances = <<>>
    /\ micro = <<>>
    /\ exited = FALSE
    /\ run = NoRun

\* The working state after each operation when the task ends with it: the
\* synchronous part, then the microtask checkpoint.
AfterCallRawNodeMethod(methodName, params) ==
    drain(callRawNodeMethod(Start, methodName, params, "callRawNodeMethod"))

AfterInstall(appInstanceId) ==
    drain(callRawNodeMethod(Start, RpcMethodName.INSTALL, appInstanceId, "install"))

AfterInstallVirtual(appInstanceId) ==
    drain(callRawNodeMethod(Start, RpcMethodName.INSTALL_VIRTUAL, appInstanceId, "install"))

AfterGetOrCreateAppInstance(id, info) ==
    drain(getOrCreateAppInstance(Start, id, info, "getOrCreateAppInstance"))

AfterNodeMessage(message) == drain(onNodeMessage(Start, message))

AfterTimeout(c) == drain(timeoutCallback(Start, c))

\* The application calls callRawNodeMethod itself, or through a method that
\* only awaits it (rejectInstall, deposit, withdraw, ...).
CallRawNodeMethod(methodName, params) ==
    Commit(callRawNodeMethod(Start, methodName, params, "callRawNodeMethod"))

\* install(appInstanceId), up to its await.
Install(appInstanceId) ==
    Commit(callRawNodeMethod(Start, RpcMethodName.INSTALL, appInstanceId, "install"))

\* installVirtual(appInstanceId, intermediaryIdentifier), up to its await.
InstallVirtual(appInstanceId) ==
    Commit(callRawNodeMethod(Start, RpcMethodName.INSTALL_VIRTUAL, appInstanceId, "install"))

\* The application calls getOrCreateAppInstance(id, info).
GetOrCreateAppInstance(id, info) ==
    Commit(getOrCreateAppInstance(Start, id, info, "getOrCreateAppInstance"))

\* The transport delivers one message to onNodeMessage, which returns at
\* the first await; the reactions stay queued until the task ends, and the
\* transport or the application may call the provider again before that.
NodeMessage(message) ==
    Commit(onNodeMessage(Start, message))

\* The running task ends: the microtask queue is run until it is empty.
EndTask ==
    /\ micro # <<>>
    /\ Commit(drain(Start))

\* Timers of equal delay fire in the order they were set.
TimerDue(c) ==
    /\ calls[c].timer = "armed"
    /\ now >= calls[c].id + NODE_REQUEST_TIMEOUT
    /\ \A d \in 1..(c - 1) : calls[d].timer # "armed"

\* The timer of call c fires.
Timeout(c) ==
    /\ micro = <<>>
    /\ TimerDue(c)
    /\ Commit(AfterTimeout(c))

\* The clock moves to the next millisecond (modelled while it separates the
\* ids of two calls).
Tick ==
    /\ \E c \in DOMAIN calls : calls[c].id = now
    /\ Len(calls) < MaxCalls
    /\ Commit([Start EXCEPT !.now = now + 1])

Deadlines ==
    {calls[c].id + NODE_REQUEST_TIMEOUT :
        c \in {d \in DOMAIN calls : calls[d].timer = "armed"}}

\* The clock moves to the expiry of the next timer.
AdvanceToDeadline ==
    /\ micro = <<>>
    /\ \E t \in Deadlines : t > now
    /\ LET next == CHOOSE t \in Deadlines : t > now /\ \A u \in Deadlines : u > now => t <= u
       IN Commit([Start EXCEPT !.now = next])

IssuedIds == {calls[c].id : c \in DOMAIN calls}

RawMethods == {RpcMethodName.DEPOSIT, NoMethod}

Next ==
    \/ \E m \in RawMethods : CallRawNodeMethod(m, "")
    \/ \E id \in AppIds : Install(id)
    \/ \E id \in AppIds : InstallVirtual(id)
    \/ \E id \in AppIds, info \in Infos \cup {NoInfo} : GetOrCreateAppInstance(id, info)
    \/ \E message \in InboundMessages(IssuedIds) : NodeMessage(message)
    \/ \E c \in DOMAIN calls : Timeout(c)
    \/ EndTask
    \/ Tick
    \/ AdvanceToDeadline

Spec == Init /\ [][Next]_vars

\* The run in which the node sends no message that carries a request id.
UncorrelatedMessages == {m \in InboundMessages({}) : m.id = 0}

NextSilent ==
    \/ \E m \in RawMethods : CallRawNodeMethod(m, "")
    \/ \E id \in AppIds : Install(id)
    \/ \E id \in AppIds : InstallVirtual(id)
    \/ \E id \in AppIds, info \in Infos \cup {NoInfo} : GetOrCreateAppInstance(id, info)
    \/ \E message \in UncorrelatedMessages : NodeMessage(message)
    \/ \E c \in DOMAIN calls : Timeout(c)
    \/ EndTask
    \/ Tick
    \/ AdvanceToDeadline

SilentSpec == Init /\ [][NextSilent]_vars

\* One protocol run of the two peers.  The provider takes no part in it.
ProtoInit ==
    /\ now = 1
    /\ calls = <<>>
    /\ requestListeners = <<>>
    /\ appInstances = <<>>
    /\ micro = <<>>
    /\ exited = FALSE
    /\ run = NoRun

StartProtocol(kind, p) ==
    /\ run.kind = "none"
    /\ run' = startProtocol(kind, p)
    /\ UNCHANGED providerVars

Execute(r) ==
    /\ CanExecute(run, r)
    /\ run' = execute(run, r)
    /\ UNCHANGED providerVars

Deliver(r) ==
    /\ run.wire[r] # <<>>
    /\ run' = deliver(run, r)
    /\ UNCHANGED providerVars

StartAcknowledger ==
    /\ run.kind \in Kinds
    /\ ~run.started["acknowledger"]
    /\ run.inbox["acknowledger"] # <<>>
    /\ run' = startAcknowledger(run)
    /\ UNCHANGED providerVars

ProtoNext ==
    \/ \E kind \in Kinds, p \in Peers : StartProtocol(kind, p)
    \/ \E r \in Roles : Execute(r)
    \/ \E r \in Roles : Deliver(r)
    \/ StartAcknowledger

ProtoSpec == ProtoInit /\ [][ProtoNext]_vars

\* Each peer keeps executing while it can, and the channel is reliable: a
\* message on its way is delivered.
FairProtoSpec ==
    /\ ProtoSpec
    /\ \A r \in Roles : WF_vars(Execute(r)) /\ WF_vars(Deliver(r))
    /\ WF_vars(StartAcknowledger)

-----------------------------------------------------------------------------
(* Properties *)

\* A task starts in this state: no reaction is queued and the process runs.
TaskStart == micro = <<>> /\ ~exited

Pending(c) == calls[c].status = "pending"

\* The request call c built.
RequestOf(c) == jsonRpcDeserialize(calls[c].methodName, calls[c].appInstanceId, calls[c].id)

\* The type tag onNodeMessage reads off a message, and the payload under it.
TagOf(m) == IF m.jsonrpc THEN m.result.type ELSE m.type
PayloadOf(m) == IF m.jsonrpc THEN m.result ELSE [type |-> m.type, data |-> m.data]

\* A correlated response: it carries an id and no error tag.
IsResponse(m) == m.id # 0 /\ TagOf(m) \notin Values(ErrorType)

\* The uncorrelated events of one type, in both shapes.
EventsOfType(type) == {m \in UncorrelatedMessages : TagOf(m) = type}

\* Call d and its entry in the pending table are in s as they are now.
Untouched(s, d) ==
    /\ s.calls[d] = calls[d]
    /\ (calls[d].id \in DOMAIN s.requestListeners) = (calls[d].id \in DOMAIN requestListeners)
    /\ calls[d].id \in DOMAIN requestListeners
          => s.requestListeners[calls[d].id] = requestListeners[calls[d].id]

\* C1: every call of callRawNodeMethod settles exactly once.  resolve/reject
\* is never invoked twice on a call, and a call that nothing can settle any
\* more (its timer has fired, or was never set) has been settled.
C1_SettlesExactlyOnce ==
    \A c \in DOMAIN calls :
        /\ calls[c].settles <= 1
        /\ calls[c].timer # "armed" => calls[c].settles = 1

\* C2: when no message carrying the id of a call is handled before its timer
\* fires, the call is rejected with request_timeout, the error quotes the
\* request of the call, and the entry of its id is gone from the table.
\* (Stated for the runs of SilentSpec, in which no message carries an id.)
C2_TimeoutRejects ==
    \A c \in DOMAIN calls :
        calls[c].timer = "fired" =>
            /\ calls[c].status = "rejected"
            /\ calls[c].errorName = "request_timeout"
            /\ calls[c].echo = RequestOf(c)
            /\ calls[c].id \notin DOMAIN requestListeners

\* C3: a correlated response whose result type differs from the method name
\* of the pending call registered under its id makes that call reject with
\* unexpected_message_type, and does not resolve it.
C3_MismatchedTypeRejects ==
    \A m \in InboundMessages(IssuedIds) :
        (/\ IsResponse(m)
         /\ m.id \in DOMAIN requestListeners
         /\ m.result.type # calls[requestListeners[m.id]].methodName)
        => LET s == AfterNodeMessage(m)
               c == requestListeners[m.id]
           IN  /\ s.calls[c].status = "rejected"
               /\ s.calls[c].errorName = "unexpected_message_type"
               /\ s.calls[c].settles = 1

C3_Witness ==
    \E c \in DOMAIN calls :
        /\ calls[c].status = "rejected"
        /\ calls[c].errorName = "unexpected_message_type"

OrphanedResponseEvent(id) ==
    [topic |-> EventType.ERROR,
     payload |-> [type |-> EventType.ERROR,
                  data |-> [NoData EXCEPT !.errorName = "orphaned_response",
                                          !.message = id]],
     appInstance |-> NoRecord]

TimedOut(c) == calls[c].status = "rejected" /\ calls[c].errorName = "request_timeout"

\* C4: a correlated response that arrives after its request timed out (and
\* is handled as a task of its own) makes
\* the provider publish an orphaned_response error event; it settles no call
\* and leaves the pending table as it is.
C4_LateResponseOrphaned ==
    TaskStart =>
    \A c \in DOMAIN calls :
        TimedOut(c) =>
            \A m \in InboundMessages({calls[c].id}) :
                IsResponse(m) =>
                    LET s == AfterNodeMessage(m)
                    IN  /\ s.emitted = <<OrphanedResponseEvent(m.id)>>
                        /\ s.calls = calls
                        /\ s.requestListeners = requestListeners
                        /\ s.appInstances = appInstances

C4_Witness ==
    TaskStart /\
    \E c \in DOMAIN calls :
        /\ TimedOut(c)
        /\ calls[c].timer = "fired"
        /\ \E m \in InboundMessages({calls[c].id}) :
              /\ IsResponse(m)
              /\ m.result.type = calls[c].methodName
              /\ AfterNodeMessage(m).emitted = <<OrphanedResponseEvent(calls[c].id)>>

\* C5: of two calls in flight with distinct ids, settling one (by a response
\* or an error message carrying its id, or by its timer) leaves the other
\* call and the other's entry in the pending table unchanged: when the
\* handler returns, and when the task ends unless a continuation has issued
\* a new request by then.
C5_DistinctIdsIndependent ==
    \A c, d \in DOMAIN calls :
        (calls[c].id # calls[d].id /\ Pending(c) /\ Pending(d))
        => /\ \A m \in InboundMessages({calls[c].id}) :
                 m.id # 0 =>
                    /\ Untouched(onNodeMessage(Start, m), d)
                    /\ AfterNodeMessage(m).sent = <<>>
                          => Untouched(AfterNodeMessage(m), d)
           /\ calls[c].timer = "armed" =>
                 /\ Untouched(timeoutCallback(Start, c), d)
                 /\ AfterTimeout(c).sent = <<>> => Untouched(AfterTimeout(c), d)

C5_Witness ==
    \E c, d \in DOMAIN calls :
        /\ calls[c].id # calls[d].id
        /\ ~Pending(c)
        /\ calls[c].settles = 1
        /\ Pending(d)
        /\ calls[d].id \in DOMAIN requestListeners
        /\ requestListeners[calls[d].id] = d

\* C6: getOrCreateAppInstance(id, hint) called as a task of its own for a
\* cached id returns the cached
\* record, whatever the hint, changes nothing in the cache and sends no
\* request to the node.
C6_CachedIgnoresHint ==
    TaskStart =>
    \A id \in DOMAIN appInstances, info \in Infos \cup {NoInfo} :
        LET s == AfterGetOrCreateAppInstance(id, info)
        IN  /\ s.ret = appInstances[id]
            /\ s.appInstances = appInstances
            /\ s.sent = <<>>
            /\ s.calls = calls

C6_Witness ==
    TaskStart /\
    \E id \in DOMAIN appInstances, info \in Infos :
        /\ info # appInstances[id].info
        /\ AfterGetOrCreateAppInstance(id, info).ret = appInstances[id]
        /\ AfterGetOrCreateAppInstance(id, info).ret.info # info

\* C7: once a record is cached under an app-instance id, it is never
\* replaced by a different record.
C7_RecordNeverReplaced ==
    [][\A id \in DOMAIN appInstances :
          id \in DOMAIN appInstances' /\ appInstances'[id] = appInstances[id]]_vars

\* C8: handling, as a task of its own, a REJECT_INSTALL event whose payload
\* carries the details of
\* the app instance with identity hash H publishes one REJECT_INSTALL event
\* whose appInstance is the record the cache holds under H, and sends no
\* request to the node, whether H was cached or not.
C8_RejectInstallNoFetch ==
    TaskStart =>
    \A m \in EventsOfType(EventName.REJECT_INSTALL) :
        LET s == AfterNodeMessage(m)
            H == PayloadOf(m).data.appInstance.identityHash
        IN  /\ H \in DOMAIN s.appInstances
            /\ s.emitted =
                  <<[topic |-> EventType.REJECT_INSTALL,
                     payload |-> [type |-> EventType.REJECT_INSTALL, data |-> NoData],
                     appInstance |-> s.appInstances[H]]>>
            /\ s.sent = <<>>
            /\ s.calls = calls

C8_Witness ==
    TaskStart /\
    \E m \in EventsOfType(EventName.REJECT_INSTALL) :
        LET s == AfterNodeMessage(m)
            info == PayloadOf(m).data.appInstance
        IN  /\ info.identityHash \in DOMAIN appInstances
            /\ appInstances[info.identityHash].info # info
            /\ \E c \in DOMAIN calls :
                  Pending(c) /\ calls[c].methodName = RpcMethodName.GET_APP_INSTANCE_DETAILS
            /\ Len(s.emitted) = 1
            /\ s.emitted[1].appInstance = appInstances[info.identityHash]

\* C9: handling one INSTALL_VIRTUAL event, whose id is at data.params,
\* sends exactly one GET_APP_INSTANCE_DETAILS request for that id when the
\* id is not cached, and sends nothing when it is: this is what the handler
\* has sent when it returns, and all that the task has sent when the event
\* is handled as a task of its own.
C9_InstallVirtualFetchesOnce ==
    \A m \in EventsOfType(EventName.INSTALL_VIRTUAL) :
        LET h == onNodeMessage(Start, m)
            s == AfterNodeMessage(m)
            id == PayloadOf(m).data.params.appInstanceId
            fetch == IF id \in DOMAIN appInstances
                     THEN <<>>
                     ELSE <<jsonRpcDeserialize(RpcMethodName.GET_APP_INSTANCE_DETAILS, id, now)>>
        IN  /\ h.sent = fetch
            /\ TaskStart => s.sent = fetch

C9_Witness ==
    TaskStart /\
    /\ \E c \in DOMAIN calls :
          /\ calls[c].cont = "handleInstallVirtualEvent"
          /\ calls[c].methodName = RpcMethodName.GET_APP_INSTANCE_DETAILS
          /\ calls[c].status = "resolved"
    /\ \E m \in EventsOfType(EventName.INSTALL_VIRTUAL) :
          /\ PayloadOf(m).data.params.appInstanceId \in DOMAIN appInstances
          /\ AfterNodeMessage(m).sent = <<>>
          /\ Len(AfterNodeMessage(m).emitted) = 1

\* C10: every inbound message with a recognized error tag, of either shape,
\* with or without an id, has its payload published on the ERROR topic.
C10_ErrorsRepublished ==
    \A m \in InboundMessages(IssuedIds) :
        TagOf(m) \in Values(ErrorType) =>
            LET s == AfterNodeMessage(m)
            IN \E i \in DOMAIN s.emitted :
                  /\ s.emitted[i].topic = EventType.ERROR
                  /\ s.emitted[i].payload = PayloadOf(m)

\* C11: a call of callRawNodeMethod whose method name cannot be resolved
\* fails at once: its promise is rejected, nothing is sent on the transport
\* and no entry is added to the pending table.
C11_MalformedRequestFails ==
    LET s == AfterCallRawNodeMethod(NoMethod, "")
        c == Len(calls) + 1
    IN  /\ s.calls[c].status = "rejected"
        /\ s.sent = <<>>
        /\ DOMAIN s.requestListeners \subseteq DOMAIN requestListeners

\* C12: the handling of any inbound message by onNodeMessage, whatever its
\* shape and tag and whether or not a call is pending for its id, completes
\* without raising, and the provider stays alive for the messages that
\* arrive afterwards.
C12_HandlingNeverRaises ==
    /\ ~exited
    /\ \A m \in InboundMessages(IssuedIds) :
          ~AfterNodeMessage(m).raised /\ ~AfterNodeMessage(m).unhandled

\* The working state at the start of the task that follows s: the tables are
\* kept, the outputs of the finished task are behind.
NextTask(s) ==
    [s EXCEPT !.emitted = <<>>, !.sent = <<>>, !.ret = NoRecord, !.raised = FALSE,
              !.unhandled = FALSE]

\* Call c was rejected by an error message of the node.
NodeErrored(c) == calls[c].status = "rejected" /\ calls[c].errorName = "node_error"

\* C13: an error-tagged message whose id is in the pending table rejects the
\* call registered there (it never resolves it) and removes the entry before
\* the handler returns, so that, the message being handled as a task of its
\* own, a message with that id or a timer of that id handled afterwards
\* settles nothing; a call rejected by the node is never registered again.
C13_NodeErrorRejects ==
    /\ \A i \in DOMAIN requestListeners :
          LET c == requestListeners[i]
              h == onNodeMessage(Start, JsonRpcResponse(i, NodeErrorPayload))
          IN  /\ h.calls[c].status = "rejected"
              /\ h.calls[c].errorName = "node_error"
              /\ h.calls[c].settles = 1
              /\ i \notin DOMAIN h.requestListeners
    /\ \A i \in DOMAIN requestListeners :
          LET c == requestListeners[i]
              s == AfterNodeMessage(JsonRpcResponse(i, NodeErrorPayload))
              t == NextTask(s)
          IN  TaskStart =>
              /\ s.calls[c].status = "rejected"
              /\ s.calls[c].errorName = "node_error"
              /\ s.calls[c].settles = 1
              /\ i \notin DOMAIN s.requestListeners
              /\ \A p \in ResponsePayloads \cup {NodeErrorPayload} :
                    LET u == drain(onNodeMessage(t, JsonRpcResponse(i, p)))
                    IN  u.calls = s.calls /\ u.requestListeners = s.requestListeners
              /\ \A d \in DOMAIN calls :
                    calls[d].id = i /\ calls[d].timer = "armed" =>
                       LET u == drain(timeoutCallback(t, d))
                       IN  /\ u.requestListeners = s.requestListeners
                           /\ u.calls = [s.calls EXCEPT ![d].timer = "fired"]
    /\ \A c \in DOMAIN calls :
          NodeErrored(c) =>
             ~(calls[c].id \in DOMAIN requestListeners /\ requestListeners[calls[c].id] = c)

\* A call rejected by the node whose timer fired afterwards and settled nothing.
C13_Witness ==
    \E c \in DOMAIN calls :
        NodeErrored(c) /\ calls[c].timer = "fired" /\ calls[c].settles = 1

\* The public INSTALL event that carries the record the registry holds in s.
InstallEventOf(s, id) ==
    [topic |-> EventType.INSTALL,
     payload |-> [type |-> EventType.INSTALL, data |-> NoData],
     appInstance |-> s.appInstances[id]]

InstallPublished(s, id) ==
    id \in DOMAIN s.appInstances /\ s.emitted = <<InstallEventOf(s, id)>>

\* The details-fetches that INSTALL events are waiting for.
InstallFetches ==
    {c \in DOMAIN calls : calls[c].cont = "handleInstallEvent" /\ Pending(c)}

\* The synchronous part of every call the transport, the application or a
\* timer can make in this state.
Steps ==
    {onNodeMessage(Start, m) : m \in InboundMessages(IssuedIds)}
    \cup {callRawNodeMethod(Start, m, "", "callRawNodeMethod") : m \in RawMethods}
    \cup {callRawNodeMethod(Start, m, id, "install") :
            m \in {RpcMethodName.INSTALL, RpcMethodName.INSTALL_VIRTUAL}, id \in AppIds}
    \cup {getOrCreateAppInstance(Start, id, info, "getOrCreateAppInstance") :
            id \in AppIds, info \in Infos \cup {NoInfo}}
    \cup {timeoutCallback(Start, d) : d \in {e \in DOMAIN calls : calls[e].timer = "armed"}}

\* The tasks that consist of one such call.
Tasks == {drain(h) : h \in Steps}

\* The tasks of one call that settle call c: a message with its id, its
\* timer, or a call with an unresolvable method name made in its millisecond.
SettlingTasks(c) == {s \in Tasks : s.calls[c].status # "pending"}

\* The reactions queued in s that make handleInstallEvent publish: its
\* details-fetch was resolved, or it awaits the record of a cached id.
PublishingReactions(s) ==
    {k \in DOMAIN s.micro :
        \/ /\ s.micro[k].status = "resolved"
           /\ s.calls[s.micro[k].call].cont = "handleInstallEvent"
        \/ /\ s.micro[k].status = "emit"
           /\ s.micro[k].caller = "handleInstallEvent"}

\* The INSTALL events in what s has published.
InstallEvents(s) == {k \in DOMAIN s.emitted : s.emitted[k].topic = EventType.INSTALL}

\* C14: for every inbound INSTALL event a public INSTALL event is published
\* that carries the registry's record of the app-instance id, at once when
\* the id is cached and otherwise by the task that settles the details-fetch
\* (a fetch that has been settled is not waited for again).
C14_InstallAlwaysPublished ==
    TaskStart =>
    /\ \A m \in EventsOfType(EventName.INSTALL) :
          LET s == AfterNodeMessage(m)
              id == PayloadOf(m).data.appInstanceId
          IN  id \in DOMAIN appInstances => InstallPublished(s, id)
    /\ \A c \in InstallFetches : \A s \in SettlingTasks(c) :
          s.calls[c].status # "pending" => InstallPublished(s, calls[c].appInstanceId)

\* C14 (amended): an inbound INSTALL event whose id is cached is published at
\* once with the registry's record and nothing is sent; one whose id is not
\* cached sends one details-fetch and publishes nothing yet; the task that
\* resolves the fetch publishes the INSTALL event with the record created
\* from the fetched details; a task that rejects the fetch (error, wrong type,
\* timeout) publishes no INSTALL event and ends with an unhandled rejection.
\* In a task of several calls: a call that settles the fetch queues the
\* reaction of the handler, and the end of the task publishes one INSTALL
\* event for each handler queued with a record and none for the others.
C14_InstallPublishedWhenResolved ==
    /\ \A h \in Steps :
          /\ InstallEvents(h) = {}
          /\ \A c \in InstallFetches :
                h.calls[c].status # "pending" =>
                   \E k \in DOMAIN h.micro :
                       /\ k > Len(micro)
                       /\ h.micro[k].call = c
                       /\ h.micro[k].status = h.calls[c].status
    /\ ~exited =>
          LET s == drain(Start)
          IN  /\ Cardinality(InstallEvents(s)) = Cardinality(PublishingReactions(Start))
              /\ \A k \in DOMAIN micro :
                    micro[k].status \in {"resolved", "rejected"}
                    /\ calls[micro[k].call].cont = "handleInstallEvent" =>
                       IF micro[k].status = "rejected"
                       THEN s.unhandled
                       ELSE \E e \in InstallEvents(s) :
                               /\ s.emitted[e].appInstance.info = micro[k].value.data.appInstance
                               /\ s.emitted[e].appInstance.info \in Infos
    /\ TaskStart =>
          /\ \A m \in EventsOfType(EventName.INSTALL) :
                LET s == AfterNodeMessage(m)
                    id == PayloadOf(m).data.appInstanceId
                IN  IF id \in DOMAIN appInstances
                    THEN InstallPublished(s, id) /\ s.sent = <<>>
                         /\ s.appInstances = appInstances
                    ELSE /\ s.emitted = <<>>
                         /\ s.sent = <<jsonRpcDeserialize(RpcMethodName.GET_APP_INSTANCE_DETAILS, id, now)>>
          /\ \A c \in InstallFetches : \A s \in SettlingTasks(c) :
                /\ s.calls[c].status = "resolved" =>
                      /\ InstallPublished(s, calls[c].appInstanceId)
                      /\ s.appInstances[calls[c].appInstanceId].info \in Infos
                /\ s.calls[c].status = "rejected" =>
                      /\ \A k \in 1..Len(s.emitted) : s.emitted[k].topic # EventType.INSTALL
                      /\ s.unhandled

\* An INSTALL event whose details-fetch was resolved, and one whose fetch a
\* message can resolve and a call with an unresolvable method name rejects.
C14_Witness ==
    TaskStart /\
    /\ \E c \in DOMAIN calls :
          calls[c].cont = "handleInstallEvent" /\ calls[c].status = "resolved"
    /\ \E c \in InstallFetches :
          /\ \E s \in SettlingTasks(c) : s.calls[c].status = "resolved"
          /\ AfterCallRawNodeMethod(NoMethod, "").calls[c].status = "rejected"

\* The details-fetches of INSTALL and INSTALL_VIRTUAL events that are
\* outstanding.
EnrichmentFetches ==
    {c \in DOMAIN calls :
        /\ Pending(c)
        /\ calls[c].cont \in {"handleInstallEvent", "handleInstallVirtualEvent"}}

\* C15: while the details-fetch of an INSTALL or INSTALL_VIRTUAL enrichment
\* is outstanding, a message that arrives is handled to completion in its own
\* task: a message whose id is in the pending table settles the registered
\* call and removes its entry before the handler returns, a pass-through
\* event and a REJECT_INSTALL event are published, an enriched event whose id
\* is cached is published;
\* none of this waits for the outstanding fetch, which stays as it is.
C15_RouterNotBlocked ==
    TaskStart /\ EnrichmentFetches # {} =>
        \A m \in InboundMessages(IssuedIds) :
            LET h == onNodeMessage(Start, m)
                s == AfterNodeMessage(m)
                tag == TagOf(m)
            IN  /\ m.id \in DOMAIN requestListeners =>
                      LET d == requestListeners[m.id]
                      IN  /\ h.calls[d].status # "pending"
                          /\ h.calls[d].settles = 1
                          /\ m.id \notin DOMAIN h.requestListeners
                          /\ s.calls[d] = h.calls[d]
                          /\ \A c \in EnrichmentFetches \ {d} : s.calls[c] = calls[c]
                /\ m.id = 0 /\ tag = EventName.UPDATE_STATE =>
                      /\ s.emitted = <<[topic |-> tag, payload |-> PayloadOf(m),
                                        appInstance |-> NoRecord]>>
                      /\ \A c \in EnrichmentFetches : Untouched(s, c)
                /\ m.id = 0 /\ tag = EventName.REJECT_INSTALL =>
                      /\ Len(s.emitted) = 1
                      /\ s.emitted[1].topic = EventType.REJECT_INSTALL
                      /\ \A c \in EnrichmentFetches : Untouched(s, c)
                /\ (m.id = 0 /\ tag \in {EventName.INSTALL, EventName.INSTALL_VIRTUAL}
                           /\ AppIds \subseteq DOMAIN appInstances) =>
                      /\ Len(s.emitted) = 1
                      /\ s.emitted[1].topic =
                            (IF tag = EventName.INSTALL THEN EventType.INSTALL
                             ELSE EventType.INSTALL_VIRTUAL)
                      /\ \A c \in EnrichmentFetches : Untouched(s, c)

\* A fetch of an enrichment is outstanding next to a pending call with
\* another id, and the answer to that call settles it while the fetch stays
\* pending.
C15_Witness ==
    TaskStart /\
    \E c \in EnrichmentFetches : \E d \in DOMAIN calls :
        /\ calls[d].id # calls[c].id
        /\ calls[d].id \in DOMAIN requestListeners
        /\ requestListeners[calls[d].id] = d
        /\ LET s == AfterNodeMessage(JsonRpcResponse(calls[d].id,
                        [type |-> calls[d].methodName, data |-> NoData]))
           IN  s.calls[d].status # "pending" /\ s.calls[c].status = "pending"

\* C16: every call uses a request id different from the id of every other
\* call, however close in time the calls are made, so registering a call
\* never takes the place of the entry of another call that is not settled.
C16_RequestIdsUnique ==
    /\ \A c, d \in DOMAIN calls : c # d => calls[c].id # calls[d].id
    /\ \A method \in RawMethods :
          LET s == AfterCallRawNodeMethod(method, "")
          IN  \A d \in DOMAIN calls :
                 Pending(d) /\ calls[d].id \in DOMAIN requestListeners
                    /\ requestListeners[calls[d].id] = d
                 => /\ calls[d].id \in DOMAIN s.requestListeners
                    /\ s.requestListeners[calls[d].id] = d

\* The instructions the initiator and the receiver have executed in this run.
InitiatorOps == OpsOf(run.done["initiator"])
AcknowledgerOps == OpsOf(run.done["acknowledger"])

\* Instruction a has been executed before position k of the log.
Earlier(ops, a, k) == \E j \in 1..(k - 1) : ops[j] = a

\* C17: in every initiator schedule the last step is STATE_TRANSITION_COMMIT
\* and the first step is STATE_TRANSITION_PROPOSE, except in install, which
\* starts with KEY_GENERATE and proposes later; no other kind executes
\* KEY_GENERATE before its proposal.
C17_InitiatorProposesFirstCommitsLast ==
    run.kind \in Kinds =>
        LET ops == InitiatorOps
            n == Len(Instructions[run.kind])
        IN  /\ Len(ops) >= 1 =>
                  ops[1] = (IF run.kind = "install" THEN Instruction.KEY_GENERATE
                            ELSE Instruction.STATE_TRANSITION_PROPOSE)
            /\ \A k \in DOMAIN ops :
                  /\ ops[k] = Instruction.STATE_TRANSITION_PROPOSE =>
                        (Earlier(ops, Instruction.KEY_GENERATE, k) <=> run.kind = "install")
                  /\ ops[k] = Instruction.STATE_TRANSITION_COMMIT => k = n
            /\ Finished(run, "initiator") =>
                  /\ ops[n] = Instruction.STATE_TRANSITION_COMMIT
                  /\ \E k \in DOMAIN ops : ops[k] = Instruction.STATE_TRANSITION_PROPOSE

\* The initiator of an install has walked its schedule to the end.
C17_Witness ==
    /\ run.kind = "install"
    /\ Finished(run, "initiator")
    /\ InitiatorOps[1] = Instruction.KEY_GENERATE

\* Instruction a stands before every instruction b of the schedule.
Precedes(sched, a, b) ==
    \A k \in DOMAIN sched : sched[k] = b => Earlier(sched, a, k)

\* C18: in every receiver schedule there is no IO_WAIT before the schedule's
\* IO_SEND, and OP_SIGN_VALIDATE occurs before OP_SIGN.
C18_AckValidatesBeforeSigning ==
    run.kind \in Kinds =>
        LET sched == AckInstructions[run.kind]
        IN  /\ Precedes(sched, Instruction.IO_SEND, Instruction.IO_WAIT)
            /\ Precedes(sched, Instruction.OP_SIGN_VALIDATE, Instruction.OP_SIGN)

\* C18 (amended): in every receiver schedule there is no IO_WAIT before the
\* schedule's IO_SEND; in setup, uninstall and update OP_SIGN_VALIDATE
\* occurs before OP_SIGN and there is no IO_WAIT at all; in install the
\* receiver signs and sends first, then waits, and validates after the wait.
C18_AckValidatesBeforeSigningUnlessInstall ==
    run.kind \in Kinds =>
        LET sched == AckInstructions[run.kind]
            has(a) == \E k \in DOMAIN sched : sched[k] = a
        IN  /\ Precedes(sched, Instruction.IO_SEND, Instruction.IO_WAIT)
            /\ has(Instruction.IO_SEND) /\ has(Instruction.OP_SIGN)
            /\ has(Instruction.OP_SIGN_VALIDATE)
            /\ IF run.kind = "install"
               THEN /\ Precedes(sched, Instruction.OP_SIGN, Instruction.IO_SEND)
                    /\ Precedes(sched, Instruction.OP_SIGN, Instruction.OP_SIGN_VALIDATE)
                    /\ Precedes(sched, Instruction.IO_WAIT, Instruction.OP_SIGN_VALIDATE)
                    /\ has(Instruction.IO_WAIT)
               ELSE /\ Precedes(sched, Instruction.OP_SIGN_VALIDATE, Instruction.OP_SIGN)
                    /\ ~has(Instruction.IO_WAIT)

\* The receiver of an install has signed and not yet validated; the receiver
\* of another kind has validated and not yet signed.
C18_Witness ==
    LET signed == Executed(run, "acknowledger", Instruction.OP_SIGN)
        validated == Executed(run, "acknowledger", Instruction.OP_SIGN_VALIDATE)
    IN  /\ run.kind = "install"
        /\ signed /\ ~validated

\* The messages role r had taken before it executed position k of its log:
\* the ones taken by its IO_WAITs, and for the receiver the message that
\* started it.
TakenBefore(rn, r, k) ==
    {rn.done[r][j].msg : j \in {i \in 1..(k - 1) : rn.done[r][i].op = Instruction.IO_WAIT}}
    \cup (IF r = "acknowledger" /\ rn.started[r] THEN {rn.trigger} ELSE {})

\* C19: in the joint run of every kind, each side executes OP_SIGN_VALIDATE
\* only after its own OP_GENERATE and after it has taken a message that the
\* peer prepared after the peer's OP_SIGN, and STATE_TRANSITION_COMMIT only
\* after its own OP_SIGN_VALIDATE.
C19_ValidateAfterPeerSigned ==
    \A r \in Roles :
        LET ops == OpsOf(run.done[r])
        IN  \A k \in DOMAIN ops :
               /\ ops[k] = Instruction.OP_SIGN_VALIDATE =>
                     /\ Earlier(ops, Instruction.OP_GENERATE, k)
                     /\ \E m \in TakenBefore(run, r, k) :
                           /\ m.signed
                           /\ m.from = PeerOf(run, Peer(r))
                           /\ Executed(run, Peer(r), Instruction.OP_SIGN)
               /\ ops[k] = Instruction.STATE_TRANSITION_COMMIT =>
                     Earlier(ops, Instruction.OP_SIGN_VALIDATE, k)

\* Both sides of an install have validated and committed.
C19_Witness ==
    /\ run.kind = "install"
    /\ \A r \in Roles :
          /\ Executed(run, r, Instruction.OP_SIGN_VALIDATE)
          /\ Executed(run, r, Instruction.STATE_TRANSITION_COMMIT)

\* Both peers have reached the end of their schedules and the channel holds
\* no message that was sent and not taken.
RunComplete ==
    /\ run.kind \in Kinds
    /\ \A r \in Roles :
          /\ Finished(run, r)
          /\ run.done[r][Len(run.done[r])].op = Instruction.STATE_TRANSITION_COMMIT
          /\ run.wire[r] = <<>>
          /\ run.inbox[r] = <<>>

\* C20: over a reliable channel the joint run of every kind runs both sides
\* to their final STATE_TRANSITION_COMMIT: no side stays blocked at IO_WAIT
\* and no message that was sent is left untaken.
C20_JointRunCompletes == [](run.kind \in Kinds => <>[]RunComplete)

\* A run of install is complete.
C20_Witness == RunComplete /\ run.kind = "install"

====
